---- MODULE Spec2Model ----
(***************************************************************************)
(* Model of the job-application assistant: the progress tracker            *)
(* (progress_tracker.py), the parallel generation orchestrator             *)
(* (parallel_ai_engine.py), the single-threaded AI engine                  *)
(* (ai_powered_application_engine.py), the application engine that routes  *)
(* between modes (main_application_engine.py), the opportunity scoring     *)
(* engine (intelligent_filter.py), the job store and deduplication         *)
(* (job_discovery_engine.py) and the commander's application generation    *)
(* cycle (commander_hub.py).                                               *)
(*                                                                         *)
(* Numbers: progress percentages are kept in thirds of a percent           *)
(* (index/12*100 = index*25/3), scores in tenths of a point, weights in    *)
(* hundredths, weighted sums in thousandths of a point.                    *)
(***************************************************************************)
EXTENDS Integers, Sequences, FiniteSets, TLC

VARIABLES
    tracker,        \* the ProgressTracker object of the current run / under test
    last_call,      \* name of the tracker method called by the last tracker step
    terminated,     \* complete() or error() has been called on the tracker
    complete_calls, \* number of complete() calls on the tracker
    error_calls,    \* number of error() calls on the tracker
    engine,         \* the ApplicationEngine object: api_key, ai_mode, parallel_mode, attributes set
    main_pc,        \* position of process_job_application
    job_data,       \* the job being processed
    package,        \* the value process_job_application returned
    exc,            \* the exception that reached the caller of process_job_application
    attempted,      \* modes process_job_application has tried for the job, in order
    orch_pc,        \* position of generate_sophisticated_application
    orch_exc,       \* the exception generate_sophisticated_application raised
    task,           \* state of each of the nine tasks of the parallel run
    outcome,        \* what the external call of each task did
    result,         \* value each task returned to asyncio.gather
    api_calls_made, \* ParallelAIEngine.api_calls_made
    application,    \* the SophisticatedApplicationPackage of the parallel run
    ai_pc,          \* position of AIPoweredApplicationEngine.generate_ai_application
    ai_content,     \* content dictionary built by _generate_ai_content
    filter_mode,    \* IntelligentFilter: "ai" (client set) or "fallback"
    scored_job,     \* the opportunity passed to score_opportunity
    ai_reply,       \* the reply of the external analysis for that opportunity
    scoring,        \* the ScoringResult returned by score_opportunity
    rank_pc,        \* position of rank_opportunities: "idle" or "returned"
    jobs_with_scores, \* the list passed to rank_opportunities
    ranked_jobs,    \* the list rank_opportunities returned
    dedup_pc,       \* position of _deduplicate_jobs: "idle" or "returned"
    all_jobs,       \* the list passed to _deduplicate_jobs
    unique_jobs,    \* the list _deduplicate_jobs returned
    job_opportunities, \* rows of the job_opportunities table of JobDatabase
    applications,   \* rows of the applications table of CommanderHub
    store_call,     \* the last call on the two stores: operation, argument, result
    config,         \* CommanderHub.config: max_daily_applications
    daily_stats,    \* CommanderHub.daily_stats: applications_generated
    hub_pc,         \* position of _application_generation_cycle
    queued_jobs,    \* the jobs the running pass of the cycle still has to visit
    call_log        \* the external calls issued and the rate-limiting sleeps run, in order

vars == << tracker, last_call, terminated, complete_calls, error_calls,
           engine, main_pc, job_data, package, exc, attempted,
           orch_pc, orch_exc, task, outcome, result, api_calls_made, application,
           ai_pc, ai_content,
           filter_mode, scored_job, ai_reply, scoring,
           rank_pc, jobs_with_scores, ranked_jobs,
           dedup_pc, all_jobs, unique_jobs,
           job_opportunities, applications, store_call,
           config, daily_stats, hub_pc, queued_jobs, call_log >>

trackerVars == << tracker, last_call, terminated, complete_calls, error_calls >>
engineVars  == << engine, main_pc, job_data, package, exc, attempted >>
orchVars    == << orch_pc, orch_exc, task, outcome, result, api_calls_made, application >>
aiVars      == << ai_pc, ai_content >>
scoreVars   == << filter_mode, scored_job, ai_reply, scoring >>
rankVars    == << rank_pc, jobs_with_scores, ranked_jobs >>
dedupVars   == << dedup_pc, all_jobs, unique_jobs >>
storeVars   == << job_opportunities, applications, store_call >>
hubVars     == << config, daily_stats, hub_pc, queued_jobs >>
layer2Vars  == << rankVars, dedupVars, storeVars, hubVars >>

\* Python's None, for the variables that hold strings and for those that hold objects
None == "None"
NoObject == [ none |-> TRUE ]

----------------------------------------------------------------------------
(* Bounds *)

MaxElapsed == 1         \* elapsed seconds read from the clock are 0..MaxElapsed
MaxDisplay == 5         \* tracker API exploration stops after this many printed blocks
MaxPairs == 3           \* rank_opportunities is given lists of at most this many pairs
MaxJobs == 3            \* _deduplicate_jobs is given lists of at most this many jobs
MaxApplications == 2    \* rows the applications table can hold
MaxDailyApplications == 2    \* largest max_daily_applications of a configuration

----------------------------------------------------------------------------
(* progress_tracker.py *)

ProgressStage ==
    << "INITIALIZING", "COMPANY_RESEARCH", "BUSINESS_ANALYSIS",
       "TECHNICAL_RESEARCH", "MARKET_ANALYSIS", "POSITIONING_STRATEGY",
       "COVER_LETTER_GENERATION", "EXECUTIVE_SUMMARY", "INTERVIEW_PREP",
       "SUCCESS_STRATEGY", "FINALIZING", "COMPLETE" >>

Stages == { ProgressStage[i] : i \in 1..Len(ProgressStage) }

\* list(ProgressStage).index(stage)
StageIndex(stage) ==
    (CHOOSE i \in 1..Len(ProgressStage) : ProgressStage[i] = stage) - 1

\* mutant: the percentage of the stages that remain instead of those reached
ProgressPercentRemaining(stage) ==
    ((Len(ProgressStage) - StageIndex(stage)) * 100 * 3) \div Len(ProgressStage)

\* (stage_index / len(ProgressStage)) * 100, in thirds of a percent
ProgressPercent(stage) ==
    (StageIndex(stage) * 100 * 3) \div Len(ProgressStage)

\* ProgressTracker.__init__
NewTracker ==
    [ is_active        |-> FALSE,
      current_stage    |-> "INITIALIZING",
      progress_updates |-> << >>,
      stage_timings    |-> << >>,
      display          |-> << >> ]

\* dict assignment d[k] = v
DictSet(d, k, v) ==
    [ x \in (DOMAIN d) \cup {k} |-> IF x = k THEN v ELSE d[x] ]

\* ProgressTracker.start
TrackerStart(t) ==
    [ t EXCEPT !.is_active = TRUE,
               !.display = Append(@, [kind |-> "banner", stage |-> t.current_stage,
                                      message |-> "start"]) ]

\* ProgressTracker.update_stage; elapsed is time.time() - last_update_time
TrackerUpdateStage(t, stage, message, elapsed) ==
    IF ~t.is_active THEN t
    ELSE LET timings == IF t.current_stage # "INITIALIZING"
                        THEN DictSet(t.stage_timings, t.current_stage, elapsed)
                        ELSE t.stage_timings
             update == [ stage |-> stage, message |-> message,
                         progress_percent |-> ProgressPercent(stage) ]
         IN [ t EXCEPT !.stage_timings = timings,
                       !.current_stage = stage,
                       !.progress_updates = Append(@, update),
                       !.display = Append(@, [kind |-> "stage", stage |-> stage,
                                              message |-> message]) ]

\* mutant: the heartbeat is recorded like a stage update
TrackerUpdateProgressRecorded(t, message) ==
    IF ~t.is_active THEN t
    ELSE [ t EXCEPT !.progress_updates =
                        Append(@, [ stage |-> t.current_stage, message |-> message,
                                    progress_percent |-> ProgressPercent(t.current_stage) ]),
                    !.display = Append(@, [kind |-> "mini", stage |-> t.current_stage,
                                           message |-> message]) ]

\* ProgressTracker.update_progress
TrackerUpdateProgress(t, message) ==
    IF ~t.is_active THEN t
    ELSE [ t EXCEPT !.display = Append(@, [kind |-> "mini", stage |-> t.current_stage,
                                           message |-> message]) ]

\* ProgressTracker.complete
TrackerComplete(t) ==
    [ t EXCEPT !.is_active = FALSE,
               !.display = Append(@, [kind |-> "completed", stage |-> t.current_stage,
                                      message |-> "complete"]) ]

\* ProgressTracker.error
TrackerError(t) ==
    [ t EXCEPT !.is_active = FALSE,
               !.display = Append(@, [kind |-> "failed", stage |-> t.current_stage,
                                      message |-> "error"]) ]

\* get_summary()['progress_percent']
TrackerPercent(t) == ProgressPercent(t.current_stage)

----------------------------------------------------------------------------
(* Initial values of each component *)

TrackerInit ==
    /\ tracker = NewTracker
    /\ last_call = None
    /\ terminated = FALSE
    /\ complete_calls = 0
    /\ error_calls = 0

NoEngine ==
    /\ engine = NoObject
    /\ main_pc = "none"
    /\ job_data = NoObject
    /\ package = NoObject
    /\ exc = None
    /\ attempted = << >>

----------------------------------------------------------------------------
(* The ProgressTracker driven through its public methods in any order *)

\* stages passed to update_stage by the callers of the tracker
StageInputs == { "INITIALIZING", "COMPANY_RESEARCH", "COVER_LETTER_GENERATION", "FINALIZING" }

CallStart ==
    /\ Len(tracker.display) < MaxDisplay
    /\ tracker' = TrackerStart(tracker)
    /\ last_call' = "start"
    /\ UNCHANGED << terminated, complete_calls, error_calls >>

CallUpdateStage ==
    /\ Len(tracker.display) < MaxDisplay
    /\ \E stage \in StageInputs, elapsed \in 0..MaxElapsed :
          tracker' = TrackerUpdateStage(tracker, stage, "stage", elapsed)
    /\ last_call' = "update_stage"
    /\ UNCHANGED << terminated, complete_calls, error_calls >>

CallUpdateProgress ==
    /\ Len(tracker.display) < MaxDisplay
    /\ tracker' = TrackerUpdateProgress(tracker, "heartbeat")
    /\ last_call' = "update_progress"
    /\ UNCHANGED << terminated, complete_calls, error_calls >>

CallComplete ==
    /\ Len(tracker.display) < MaxDisplay
    /\ tracker' = TrackerComplete(tracker)
    /\ last_call' = "complete"
    /\ terminated' = TRUE
    /\ complete_calls' = complete_calls + 1
    /\ UNCHANGED error_calls

CallError ==
    /\ Len(tracker.display) < MaxDisplay
    /\ tracker' = TrackerError(tracker)
    /\ last_call' = "error"
    /\ terminated' = TRUE
    /\ error_calls' = error_calls + 1
    /\ UNCHANGED complete_calls

----------------------------------------------------------------------------
(* parallel_ai_engine.py *)

\* research_tasks, in the order they are handed to asyncio.gather
ResearchTasks ==
    << "company_intelligence", "competitive_analysis",
       "technical_alignment", "strategic_positioning" >>

\* content_tasks, in the order they are handed to asyncio.gather
ContentTasks ==
    << "sophisticated_cover_letter", "executive_summary",
       "advanced_interview_prep", "success_strategy", "career_narrative" >>

SeqRange(s) == { s[i] : i \in 1..Len(s) }

AllTasks == SeqRange(ResearchTasks) \cup SeqRange(ContentTasks)

NoResult == [ kind |-> "none", of |-> "none" ]

\* response.choices[0].message.content.strip() of a successful call
Output(name) == [ kind |-> "output", of |-> name ]

\* "[{task_name} generation failed - implementing fallback strategy]"
Fallback(name) == [ kind |-> "fallback", of |-> name ]

\* what the external completion call of a task can do
Outcomes == { "ok", "raises", "no_content" }

\* mutant: no except branch, the exception of the call is what the task yields
CallResultUncaught(name, o) ==
    IF o = "ok" THEN Output(name) ELSE [ kind |-> "exception", of |-> name ]

\* value returned by _sophisticated_gpt4_call for an outcome of the call
CallResult(name, o) ==
    IF o = "ok" THEN Output(name) ELSE Fallback(name)

\* self.api_calls_made += 1 runs once the call has returned, before the
\* content of the response is read
CallsAfter(n, o) ==
    IF o \in { "ok", "no_content" } THEN n + 1 ELSE n

\* mutant: resume as soon as one task has returned (FIRST_COMPLETED)
GatherFirstCompleted(tasks) == \E i \in 1..Len(tasks) : task[tasks[i]] = "done"

\* await asyncio.gather(*tasks): resumes when every task has returned
GatherDone(tasks) == \A i \in 1..Len(tasks) : task[tasks[i]] = "done"

\* every coroutine of the gather has run up to its first await
AllStarted(tasks) == \A i \in 1..Len(tasks) : task[tasks[i]] # "created"

\* the event loop steps the tasks of a gather in creation order
NextToStart(tasks, i) ==
    /\ task[tasks[i]] = "created"
    /\ \A j \in 1..(i - 1) : task[tasks[j]] # "created"

PhaseTasks(pc) == IF pc = "research" THEN ResearchTasks ELSE ContentTasks

OrchInit ==
    /\ orch_pc = "idle"
    /\ orch_exc = None
    /\ task = [ n \in AllTasks |-> "new" ]
    /\ outcome = [ n \in AllTasks |-> "none" ]
    /\ result = [ n \in AllTasks |-> NoResult ]
    /\ api_calls_made = 0
    /\ application = NoObject

\* update_stage as called from the try block of the orchestrator; when the
\* console write of _display_update fails the update is recorded but not shown
StageStep(t, stage, message, elapsed, shown) ==
    IF shown THEN TrackerUpdateStage(t, stage, message, elapsed)
    ELSE [ TrackerUpdateStage(t, stage, message, elapsed) EXCEPT !.display = t.display ]

\* generate_sophisticated_application up to the first await of phase 1
GenerateStart ==
    /\ main_pc = "parallel"
    /\ orch_pc = "idle"
    /\ \E elapsed \in 0..MaxElapsed, shown \in BOOLEAN :
         LET t0 == TrackerStart(NewTracker)
             t1 == StageStep(t0, "COMPANY_RESEARCH", "phase 1", elapsed, shown)
         IN IF shown
            THEN /\ tracker' = TrackerUpdateProgress(t1, "Executing parallel deep research")
                 /\ task' = [ n \in AllTasks |->
                                IF n \in SeqRange(ResearchTasks) THEN "created" ELSE "new" ]
                 /\ orch_pc' = "research"
                 /\ terminated' = FALSE
                 /\ error_calls' = 0
                 /\ UNCHANGED orch_exc
            ELSE /\ tracker' = TrackerError(t1)
                 /\ terminated' = TRUE
                 /\ error_calls' = 1
                 /\ orch_pc' = "raised"
                 /\ orch_exc' = "DisplayError"
                 /\ UNCHANGED task
    /\ result' = [ n \in AllTasks |-> NoResult ]
    /\ outcome' = [ n \in AllTasks |-> "none" ]
    /\ complete_calls' = 0
    /\ last_call' = None
    /\ UNCHANGED << api_calls_made, application >>
    /\ UNCHANGED engineVars

\* _sophisticated_gpt4_call up to "await asyncio.to_thread(...)"
TaskStart ==
    /\ orch_pc \in { "research", "content" }
    /\ \E i \in 1..Len(PhaseTasks(orch_pc)) :
         LET tasks == PhaseTasks(orch_pc) IN
         /\ NextToStart(tasks, i)
         /\ tracker' = TrackerUpdateProgress(tracker, tasks[i])
         /\ task' = [ task EXCEPT ![tasks[i]] = "calling" ]
    /\ call_log' = Append(call_log, "call")
    /\ UNCHANGED << orch_pc, orch_exc, outcome, result, api_calls_made, application >>
    /\ UNCHANGED << last_call, terminated, complete_calls, error_calls >>
    /\ UNCHANGED engineVars

\* _sophisticated_gpt4_call from the return of the external call to its return
TaskFinish ==
    /\ orch_pc \in { "research", "content" }
    /\ AllStarted(PhaseTasks(orch_pc))
    /\ \E n \in SeqRange(PhaseTasks(orch_pc)), o \in Outcomes :
         /\ task[n] = "calling"
         /\ task' = [ task EXCEPT ![n] = "done" ]
         /\ outcome' = [ outcome EXCEPT ![n] = o ]
         /\ result' = [ result EXCEPT ![n] = CallResult(n, o) ]
         /\ api_calls_made' = CallsAfter(api_calls_made, o)
    /\ UNCHANGED << orch_pc, orch_exc, application >>
    /\ UNCHANGED trackerVars
    /\ UNCHANGED engineVars

\* the dictionary returned by _parallel_deep_research_phase
ResearchDict(r) ==
    [ company_intelligence  |-> r["company_intelligence"],
      competitive_analysis  |-> r["competitive_analysis"],
      technical_alignment   |-> r["technical_alignment"],
      strategic_positioning |-> r["strategic_positioning"] ]

\* mutant: two results of the gather unpacked into the wrong names
ContentDictSwapped(r) ==
    [ cover_letter          |-> r["sophisticated_cover_letter"],
      executive_summary     |-> r["executive_summary"],
      interview_preparation |-> r["success_strategy"],
      success_strategy      |-> r["advanced_interview_prep"],
      career_narrative      |-> r["career_narrative"] ]

\* the dictionary returned by _parallel_sophisticated_content_generation
ContentDict(r) ==
    [ cover_letter          |-> r["sophisticated_cover_letter"],
      executive_summary     |-> r["executive_summary"],
      interview_preparation |-> r["advanced_interview_prep"],
      success_strategy      |-> r["success_strategy"],
      career_narrative      |-> r["career_narrative"] ]

\* _integrate_sophisticated_application (scores in tenths of a point)
Integrate(research, content, calls) ==
    [ executive_summary       |-> content.executive_summary,
      cover_letter            |-> content.cover_letter,
      strategic_positioning   |-> research.strategic_positioning,
      interview_preparation   |-> content.interview_preparation,
      success_strategy        |-> content.success_strategy,
      company_intelligence    |-> research.company_intelligence,
      competitive_analysis    |-> research.competitive_analysis,
      technical_alignment     |-> research.technical_alignment,
      career_narrative        |-> content.career_narrative,
      sophistication_score    |-> 95,
      personalization_depth   |-> 98,
      strategic_insight_score |-> 96,
      api_calls_made          |-> calls,
      optimization_level      |-> "MAXIMUM_SOPHISTICATION" ]

\* generate_sophisticated_application from the return of the phase-1 gather
\* to the first await of phase 2
ResearchBarrier ==
    /\ orch_pc = "research"
    /\ GatherDone(ResearchTasks)
    /\ \E elapsed \in 0..MaxElapsed, shown \in BOOLEAN :
         LET t1 == StageStep(tracker, "COVER_LETTER_GENERATION", "phase 2", elapsed, shown)
         IN IF shown
            THEN /\ tracker' = TrackerUpdateProgress(t1, "Generating sophisticated content")
                 /\ task' = [ n \in AllTasks |->
                                IF n \in SeqRange(ContentTasks) THEN "created" ELSE task[n] ]
                 /\ orch_pc' = "content"
                 /\ UNCHANGED << orch_exc, terminated, error_calls >>
            ELSE /\ tracker' = TrackerError(t1)
                 /\ terminated' = TRUE
                 /\ error_calls' = error_calls + 1
                 /\ orch_pc' = "raised"
                 /\ orch_exc' = "DisplayError"
                 /\ UNCHANGED task
    /\ UNCHANGED << outcome, result, api_calls_made, application >>
    /\ UNCHANGED << last_call, complete_calls >>
    /\ UNCHANGED engineVars

\* generate_sophisticated_application from the return of the phase-2 gather
\* to its return: phase 3, complete(), and the except branch when the stage
\* update or complete() raises
ContentBarrier ==
    /\ orch_pc = "content"
    /\ GatherDone(ContentTasks)
    /\ \E elapsed \in 0..MaxElapsed, shown \in BOOLEAN, completed \in BOOLEAN :
         LET t1 == StageStep(tracker, "FINALIZING", "phase 3", elapsed, shown)
         IN IF shown /\ completed
            THEN /\ tracker' = TrackerComplete(t1)
                 /\ application' = Integrate(ResearchDict(result), ContentDict(result),
                                             api_calls_made)
                 /\ complete_calls' = complete_calls + 1
                 /\ orch_pc' = "returned"
                 /\ UNCHANGED << orch_exc, error_calls >>
            ELSE IF shown
            THEN \* the console write of complete() fails after it has cleared
                 \* is_active: the except branch calls error() and raises
                 /\ tracker' = TrackerError([ t1 EXCEPT !.is_active = FALSE ])
                 /\ complete_calls' = complete_calls + 1
                 /\ error_calls' = error_calls + 1
                 /\ orch_pc' = "raised"
                 /\ orch_exc' = "DisplayError"
                 /\ UNCHANGED application
            ELSE /\ tracker' = TrackerError(t1)
                 /\ error_calls' = error_calls + 1
                 /\ orch_pc' = "raised"
                 /\ orch_exc' = "DisplayError"
                 /\ UNCHANGED << application, complete_calls >>
    /\ terminated' = TRUE
    /\ UNCHANGED << task, outcome, result, api_calls_made >>
    /\ UNCHANGED last_call
    /\ UNCHANGED engineVars

----------------------------------------------------------------------------
(* main_application_engine.py *)

\* mutant: ai_mode is set whether or not a key was found
NewEngineAlwaysAI(key) ==
    [ api_key       |-> key,
      ai_mode       |-> TRUE,
      parallel_mode |-> key,
      attrs         |-> IF key THEN { "parallel_ai_engine" }
                        ELSE { "company_researcher", "resume_engine",
                               "cover_letter_generator" } ]

\* ApplicationEngine.__init__: key is "openai_api_key or find_openai_api_key()"
NewEngine(key) ==
    [ api_key       |-> key,
      ai_mode       |-> key,
      parallel_mode |-> key,
      attrs         |-> IF key THEN { "parallel_ai_engine" }
                        ELSE { "company_researcher", "resume_engine",
                               "cover_letter_generator" } ]

\* how process_job_application is given the job
InputKinds == { "job_data", "job_url", "title_and_company", "nothing" }

\* the job_data dictionary of the job under application
TheJob == [ title |-> "AI Engineer", company |-> "TechCorp AI" ]

\* the routing at the end of process_job_application
RouteOf(e) ==
    IF e.ai_mode /\ e.parallel_mode THEN "parallel"
    ELSE IF e.ai_mode THEN "ai"
    ELSE "template"

\* process_job_application up to the call of the engine of the selected mode
ProcessJobApplication ==
    /\ main_pc = "idle"
    /\ \E kind \in InputKinds :
         CASE kind = "nothing" ->
                /\ main_pc' = "raised"
                /\ exc' = "ValueError"
                /\ UNCHANGED << job_data, package, attempted >>
           [] kind = "job_url" ->
                \* _scrape_job_posting returns None
                /\ main_pc' = "returned"
                /\ package' = NoObject
                /\ UNCHANGED << job_data, exc, attempted >>
           [] OTHER ->
                /\ job_data' = TheJob
                /\ main_pc' = RouteOf(engine)
                /\ attempted' = << RouteOf(engine) >>
                /\ UNCHANGED << package, exc >>
    /\ UNCHANGED engine
    /\ UNCHANGED trackerVars
    /\ UNCHANGED orchVars

\* the application_package dictionary of _process_with_parallel_ai_engine
ParallelPackage(job, app) ==
    [ job_information         |-> job,
      parallel_ai_application |-> app,
      application_score       |-> app.sophistication_score,
      files_generated         |-> 1,
      mode                    |-> "SOPHISTICATED_PARALLEL_AI",
      performance_metrics     |->
          [ sophistication_score    |-> app.sophistication_score,
            personalization_depth   |-> app.personalization_depth,
            strategic_insight_score |-> app.strategic_insight_score,
            api_calls_made          |-> app.api_calls_made ] ]

\* _process_with_parallel_ai_engine after run_until_complete returned the
\* application: build the package and write the files; saved is whether the
\* file writes succeed
PackageParallel ==
    /\ main_pc = "parallel"
    /\ orch_pc = "returned"
    /\ \E saved \in BOOLEAN :
         IF saved
         THEN /\ package' = ParallelPackage(job_data, application)
              /\ main_pc' = "returned"
              /\ UNCHANGED attempted
         ELSE \* except Exception: fall back to standard AI mode
              /\ main_pc' = "ai"
              /\ attempted' = Append(attempted, "ai")
              /\ UNCHANGED package
    /\ UNCHANGED << engine, job_data, exc >>
    /\ UNCHANGED trackerVars
    /\ UNCHANGED orchVars

\* _process_with_parallel_ai_engine when run_until_complete raised
ParallelFailed ==
    /\ main_pc = "parallel"
    /\ orch_pc = "raised"
    /\ main_pc' = "ai"
    /\ attempted' = Append(attempted, "ai")
    /\ UNCHANGED << engine, job_data, package, exc >>
    /\ UNCHANGED trackerVars
    /\ UNCHANGED orchVars

\* _process_with_ai_engine: its first statement reads self.ai_engine, an
\* attribute __init__ never assigns
ProcessWithAIEngine ==
    /\ main_pc = "ai"
    /\ IF "ai_engine" \in engine.attrs
       THEN /\ main_pc' = "returned"
            /\ package' = [ job_information |-> job_data, mode |-> "AI_POWERED" ]
            /\ UNCHANGED exc
       ELSE /\ main_pc' = "raised"
            /\ exc' = "AttributeError"
            /\ UNCHANGED package
    /\ UNCHANGED << engine, job_data, attempted >>
    /\ UNCHANGED trackerVars
    /\ UNCHANGED orchVars

\* the package dictionary of _create_application_package: it has no 'mode' key
TemplatePackage(job) ==
    [ job_information      |-> job,
      company_intelligence |-> "basic",
      resume_customization |-> "template",
      cover_letter         |-> "template",
      files_generated      |-> 4,
      application_score    |-> "computed",
      next_steps           |-> "standard" ]

\* _process_with_template_mode; saved is whether the file writes of
\* _create_application_package and _save_application succeed
ProcessWithTemplate ==
    /\ main_pc = "template"
    /\ \E saved \in BOOLEAN :
         IF saved
         THEN /\ package' = TemplatePackage(job_data)
              /\ main_pc' = "returned"
              /\ UNCHANGED exc
         ELSE /\ main_pc' = "raised"
              /\ exc' = "OSError"
              /\ UNCHANGED package
    /\ UNCHANGED << engine, job_data, attempted >>
    /\ UNCHANGED trackerVars
    /\ UNCHANGED orchVars

----------------------------------------------------------------------------
(* ai_powered_application_engine.py, deep_research_engine.py *)

\* shape of the JSON the research analyses got back: plain strings, a list of
\* objects under TECHNOLOGY_FOCUS, or an object under BUSINESS_MODEL
ResearchShapes == { "strings", "nested_list", "nested_overview" }

\* keys of the content dictionary of _generate_ai_content
ContentKeys == { "cover_letter", "executive_summary", "interview_prep", "success_strategy" }

\* _generate_ai_cover_letter and its siblings: the reply, or the fallback text
\* of the except branch
ContentOf(key, ok) == IF ok THEN Output(key) ELSE Fallback(key)

\* generate_ai_application up to the call of conduct_deep_research
AIStart ==
    /\ ai_pc = "ready"
    /\ \E e1 \in 0..MaxElapsed, e2 \in 0..MaxElapsed :
         tracker' = TrackerUpdateStage(
                       TrackerUpdateStage(TrackerStart(NewTracker),
                                          "INITIALIZING", "starting", e1),
                       "COMPANY_RESEARCH", "research", e2)
    /\ ai_pc' = "research"
    /\ ai_content' = << >>
    /\ UNCHANGED << last_call, terminated, complete_calls, error_calls >>

\* tracker.error(...) and "raise e" of the except branch of generate_ai_application
AIRaise(t) ==
    /\ tracker' = TrackerError(t)
    /\ terminated' = TRUE
    /\ error_calls' = error_calls + 1
    /\ ai_pc' = "raised"
    /\ UNCHANGED << ai_content, last_call, complete_calls >>

\* the sleeps and the three analysis calls of conduct_deep_research, in order
ResearchCalls == << "sleep", "call", "sleep", "call", "sleep", "call", "sleep" >>

\* a content call of _generate_ai_content and the sleep after it
ContentCall == << "call", "sleep" >>

\* conduct_deep_research, then generate_ai_application up to the second
\* content call: the stage update, _build_comprehensive_context (which joins
\* the technology list) and the cover letter
AIResearchAndCoverLetter ==
    /\ ai_pc = "research"
    /\ \E shape \in ResearchShapes, ok \in BOOLEAN, elapsed \in 0..MaxElapsed :
         LET t1 == TrackerUpdateStage(tracker, "COVER_LETTER_GENERATION", "content", elapsed)
         IN IF shape = "nested_list"
            THEN /\ AIRaise(t1)
                 /\ call_log' = call_log \o ResearchCalls
            ELSE /\ tracker' = TrackerUpdateProgress(t1, "cover_letter")
                 /\ call_log' = call_log \o ResearchCalls \o ContentCall
                 /\ ai_content' = DictSet(<< >>, "cover_letter", ContentOf("cover_letter", ok))
                 /\ ai_pc' = IF shape = "strings" THEN "summary" ELSE "summary_nested"
                 /\ UNCHANGED << last_call, terminated, complete_calls, error_calls >>

AINested == ai_pc \in { "summary_nested", "interview_nested", "strategy_nested" }

\* _generate_ai_content: executive summary
AIExecutiveSummary ==
    /\ ai_pc \in { "summary", "summary_nested" }
    /\ \E ok \in BOOLEAN, elapsed \in 0..MaxElapsed :
         /\ tracker' = TrackerUpdateStage(tracker, "EXECUTIVE_SUMMARY", "summary", elapsed)
         /\ ai_content' = DictSet(ai_content, "executive_summary",
                                  ContentOf("executive_summary", ok))
    /\ ai_pc' = IF AINested THEN "interview_nested" ELSE "interview"
    /\ call_log' = call_log \o ContentCall
    /\ UNCHANGED << last_call, terminated, complete_calls, error_calls >>

\* _generate_ai_content: interview preparation
AIInterviewPrep ==
    /\ ai_pc \in { "interview", "interview_nested" }
    /\ \E ok \in BOOLEAN, elapsed \in 0..MaxElapsed :
         /\ tracker' = TrackerUpdateStage(tracker, "INTERVIEW_PREP", "interview", elapsed)
         /\ ai_content' = DictSet(ai_content, "interview_prep",
                                  ContentOf("interview_prep", ok))
    /\ ai_pc' = IF AINested THEN "strategy_nested" ELSE "strategy"
    /\ call_log' = call_log \o ContentCall
    /\ UNCHANGED << last_call, terminated, complete_calls, error_calls >>

\* _generate_ai_content: success strategy; then generate_ai_application to its
\* end: the stage update, _create_application_package (which slices the
\* company overview) and complete()
AISuccessStrategyAndPackage ==
    /\ ai_pc \in { "strategy", "strategy_nested" }
    /\ \E ok \in BOOLEAN, e1 \in 0..MaxElapsed, e2 \in 0..MaxElapsed :
         LET t1 == TrackerUpdateStage(tracker, "SUCCESS_STRATEGY", "strategy", e1)
             t2 == TrackerUpdateStage(t1, "FINALIZING", "package", e2)
         IN IF AINested
            THEN AIRaise(t2)
            ELSE /\ tracker' = TrackerComplete(t2)
                 /\ ai_content' = DictSet(ai_content, "success_strategy",
                                          ContentOf("success_strategy", ok))
                 /\ terminated' = TRUE
                 /\ complete_calls' = complete_calls + 1
                 /\ ai_pc' = "returned"
                 /\ UNCHANGED << last_call, error_calls >>
    /\ call_log' = Append(call_log, "call")

----------------------------------------------------------------------------
(* intelligent_filter.py *)

\* self.ai_keywords
ai_keywords ==
    { "machine learning", "ml", "artificial intelligence", "ai", "deep learning",
      "neural networks", "tensorflow", "pytorch", "scikit-learn", "pandas",
      "numpy", "data science", "nlp", "computer vision", "automation",
      "python", "jupyter", "model deployment", "mlops", "data pipeline" }

\* self.infrastructure_keywords
infrastructure_keywords ==
    { "kubernetes", "docker", "aws", "azure", "gcp", "terraform", "ansible",
      "jenkins", "ci/cd", "devops", "monitoring", "prometheus", "grafana",
      "linux", "bash", "networking", "security", "sre", "site reliability" }

\* self.growth_keywords
growth_keywords ==
    { "startup", "scale-up", "learning", "mentorship", "training",
      "conference budget", "education", "certification", "career development",
      "advancement", "leadership", "team lead", "senior", "principal" }

\* self.red_flag_keywords
red_flag_keywords ==
    { "unpaid", "volunteer", "commission only", "no benefits", "long hours",
      "weekend work", "on-call 24/7", "toxic", "high pressure",
      "fast-paced environment" }

\* _score_transition_fit: transition_terms, senior_but_open and the two title lists
transition_terms ==
    { "junior", "associate", "entry", "transition", "bootcamp", "new grad",
      "career change", "infrastructure", "devops to ai" }

senior_but_open ==
    { "senior devops", "senior infrastructure", "platform engineer",
      "data platform", "ml platform", "ai platform" }

title_too_senior == { "principal", "staff", "lead" }

title_infrastructure == { "infrastructure", "platform", "devops" }

\* _score_company_culture: positive_culture, negative_culture
positive_culture ==
    { "learning", "growth", "mentorship", "collaboration", "work-life balance",
      "flexible", "remote", "innovative" }

negative_culture == { "fast-paced", "high pressure", "long hours", "weekend work" }

\* self.scoring_weights, in hundredths
scoring_weights ==
    [ technical |-> 40, transition |-> 25, culture |-> 20, growth |-> 10,
      compensation |-> 5 ]

Dimensions == DOMAIN scoring_weights

\* The texts of the modelled opportunities are built from these lower-cased
\* phrases; for each phrase, the terms of the lists above that occur in it as
\* substrings ("kw in job_text")
TermsIn ==
    [ python        |-> { "python" },
      pytorch       |-> { "pytorch" },
      nlp           |-> { "nlp" },
      mlops         |-> { "ml", "mlops" },
      kubernetes    |-> { "kubernetes" },
      mentorship    |-> { "mentorship" },
      long_hours    |-> { "long hours" },
      junior        |-> { "junior" },
      ml_engineer   |-> { "ml" },
      principal_data_scientist |-> { "principal" },
      platform_engineer        |-> { "platform engineer", "platform" } ]

BodyPhrases ==
    { "python", "pytorch", "nlp", "mlops", "kubernetes",
      "mentorship", "long_hours", "junior" }

Titles == { "ml_engineer", "principal_data_scientist", "platform_engineer" }

\* salary_range: empty, or the numbers re.findall(r'\d+') finds in it
Salaries == { << >>, << 50 >>, << 50000 >>, << 95000, 130000 >> }

Jobs ==
    [ title : Titles, body : SUBSET BodyPhrases, salary_range : Salaries ]

UnionOf(f, S) == UNION { f[x] : x \in S }

\* terms found in job.title.lower()
TitleTerms(job) == TermsIn[job.title]

\* terms found in job_text = title + description + requirements + technologies
TextTerms(job) == TermsIn[job.title] \cup UnionOf(TermsIn, job.body)

Min(a, b) == IF a < b THEN a ELSE b
Max(a, b) == IF a > b THEN a ELSE b

\* _score_technical_relevance, in tenths
ScoreTechnicalRelevance(terms) ==
    LET ai_matches    == Cardinality(terms \cap ai_keywords)
        infra_matches == Cardinality(terms \cap infrastructure_keywords)
        ai_score      == Min(ai_matches * 15, 70)
        infra_bonus   == Min(infra_matches * 5, 30)
    IN Min(ai_score + infra_bonus, 100)

\* _score_transition_fit, in tenths
ScoreTransitionFit(terms, title_terms) ==
    IF title_terms \cap title_too_senior # {} /\ title_terms \cap title_infrastructure = {}
    THEN 30
    ELSE IF terms \cap transition_terms # {} THEN 90
    ELSE IF terms \cap senior_but_open # {} THEN 80
    ELSE 60

\* _score_company_culture, in tenths
ScoreCompanyCulture(terms) ==
    LET positive_score   == 20 * Cardinality(terms \cap positive_culture)
        negative_penalty == 10 * Cardinality(terms \cap negative_culture)
    IN Max(Min(50 + positive_score - negative_penalty, 100), 10)

\* _score_growth_potential, in tenths
ScoreGrowthPotential(terms) ==
    LET growth_indicators == Cardinality(terms \cap growth_keywords)
    IN IF growth_indicators >= 3 THEN 90
       ELSE IF growth_indicators >= 1 THEN 70
       ELSE 50

\* numbers with at least four digits
ValidNumbers(salary_range) ==
    { salary_range[i] : i \in { j \in 1..Len(salary_range) : salary_range[j] >= 1000 } }

SetMax(S) == CHOOSE x \in S : \A y \in S : y <= x

\* _score_compensation, in tenths
ScoreCompensation(salary_range) ==
    IF salary_range = << >> \/ ValidNumbers(salary_range) = {} THEN 50
    ELSE LET max_salary == SetMax(ValidNumbers(salary_range))
         IN IF max_salary >= 120000 THEN 80
            ELSE IF max_salary >= 90000 THEN 60
            ELSE IF max_salary >= 60000 THEN 40
            ELSE 20

\* the weighted sum of five dimension scores, in thousandths
WeightedScore(d) ==
    d.technical * scoring_weights.technical +
    d.transition * scoring_weights.transition +
    d.culture * scoring_weights.culture +
    d.growth * scoring_weights.growth +
    d.compensation * scoring_weights.compensation

\* round(overall_score, 1): thousandths to tenths.  The sum is a binary
\* float, so a value that is a decimal tie lands on either neighbour
Round1(x) ==
    LET q == x \div 100
        r == x % 100
    IN IF r < 50 THEN { q }
       ELSE IF r > 50 THEN { q + 1 }
       ELSE { q, q + 1 }

\* the recommendation of _fallback_score_opportunity, from the unrounded sum
Recommend(overall) ==
    IF overall >= 8000 THEN "APPLY"
    ELSE IF overall >= 6000 THEN "RESEARCH"
    ELSE "PASS"

\* the five dimension scores of _fallback_score_opportunity
FallbackDimensions(job) ==
    [ technical    |-> ScoreTechnicalRelevance(TextTerms(job)),
      transition   |-> ScoreTransitionFit(TextTerms(job), TitleTerms(job)),
      culture      |-> ScoreCompanyCulture(TextTerms(job)),
      growth       |-> ScoreGrowthPotential(TextTerms(job)),
      compensation |-> ScoreCompensation(job.salary_range) ]

\* mutant: the heuristic result claims the confidence of an analysed result
FallbackScoreConfident(job, rounded) ==
    LET d == FallbackDimensions(job)
    IN [ overall_score         |-> rounded,
         confidence_level      |-> 80,
         dimensions            |-> d,
         action_recommendation |-> Recommend(WeightedScore(d)),
         keywords_matched      |-> TextTerms(job) \cap (ai_keywords \cup infrastructure_keywords),
         red_flags             |-> TextTerms(job) \cap red_flag_keywords,
         path                  |-> "fallback" ]

\* _fallback_score_opportunity; rounded is the value round() gives
FallbackScore(job, rounded) ==
    LET d == FallbackDimensions(job)
    IN [ overall_score         |-> rounded,
         confidence_level      |-> 60,
         dimensions            |-> d,
         action_recommendation |-> Recommend(WeightedScore(d)),
         keywords_matched      |-> TextTerms(job) \cap (ai_keywords \cup infrastructure_keywords),
         red_flags             |-> TextTerms(job) \cap red_flag_keywords,
         path                  |-> "fallback" ]

\* ai_data.get(key, 5.0)
GetScore(reply, key) == IF key \in reply.given THEN reply.scores[key] ELSE 50

\* ai_data.get('confidence', 0.8), in hundredths
GetConfidence(reply) == IF "confidence" \in reply.given THEN reply.confidence ELSE 80

\* the dimension scores _parse_ai_response reads from the reply
ParsedDimensions(reply) == [ k \in Dimensions |-> GetScore(reply, k) ]

\* _parse_ai_response on a reply that holds a JSON object
ParsedScore(reply, rounded) ==
    [ overall_score         |-> rounded,
      confidence_level      |-> GetConfidence(reply),
      dimensions            |-> ParsedDimensions(reply),
      action_recommendation |-> reply.recommendation,
      keywords_matched      |-> {},
      red_flags             |-> reply.red_flags,
      path                  |-> "ai" ]

\* what the external analysis can answer: the call raises, the answer holds
\* no JSON object, it holds one with a score that is not a number, or it holds
\* one with numbers; scores in tenths, confidence in hundredths
ReplyValues == { 0, 100, 150 }

JsonReplies ==
    { [ kind |-> "json",
        scores |-> [ technical |-> t, transition |-> r, culture |-> o,
                     growth |-> o, compensation |-> o ],
        given |-> g, confidence |-> a[1], recommendation |-> a[2], red_flags |-> {} ] :
      t \in ReplyValues, r \in { 0, 100 }, o \in { 0, 100 },
      g \in { Dimensions \cup { "confidence" }, Dimensions \ { "technical" } },
      a \in { << 30, "APPLY" >>, << 90, "PASS" >> } }

NoJson(kind) ==
    [ kind |-> kind, scores |-> [ k \in Dimensions |-> 50 ], given |-> {},
      confidence |-> 80, recommendation |-> "RESEARCH", red_flags |-> {} ]

AIReplies == JsonReplies \cup { NoJson("raises"), NoJson("malformed"), NoJson("bad_type") }

\* IntelligentFilter.__init__: the client is set only with a key, without
\* fallback_mode, and when the client constructor does not raise
FilterMode(has_key, fallback_mode, client_ok) ==
    IF has_key /\ ~fallback_mode /\ client_ok THEN "ai" ELSE "fallback"

\* score_opportunity
ScoreOpportunity ==
    /\ filter_mode # None
    /\ scoring = NoObject
    /\ \E job \in Jobs, reply \in AIReplies :
         /\ scored_job' = job
         /\ ai_reply' = IF filter_mode = "ai" THEN reply ELSE NoJson("not called")
         /\ IF filter_mode = "ai" /\ reply.kind = "json"
            THEN \E rounded \in Round1(WeightedScore(ParsedDimensions(reply))) :
                    scoring' = ParsedScore(reply, rounded)
            ELSE \E rounded \in Round1(WeightedScore(FallbackDimensions(job))) :
                    scoring' = FallbackScore(job, rounded)
    /\ UNCHANGED filter_mode

----------------------------------------------------------------------------
(* IntelligentFilter.rank_opportunities (intelligent_filter.py)             *)
(* Scores in tenths, confidence in hundredths, the sort key in hundredths;  *)
(* discovered_at is a time, larger is later                                 *)

\* the JobOpportunity objects of the ranked lists
RankedJobs ==
    { [ job_id |-> "a", discovered_at |-> 1 ],
      [ job_id |-> "b", discovered_at |-> 2 ] }

\* the ScoringResult objects of the ranked lists: a plain 7.0, a 7.0 with two
\* red flags, a 6.8 with high confidence and technical score, a 7.0 with a high
\* transition score
RankedScores ==
    { [ overall_score |-> 70, confidence_level |-> 70, technical_score |-> 50,
        transition_score |-> 60, red_flags |-> << >> ],
      [ overall_score |-> 70, confidence_level |-> 70, technical_score |-> 50,
        transition_score |-> 60, red_flags |-> << "long hours", "toxic" >> ],
      [ overall_score |-> 68, confidence_level |-> 90, technical_score |-> 70,
        transition_score |-> 60, red_flags |-> << >> ],
      [ overall_score |-> 70, confidence_level |-> 70, technical_score |-> 50,
        transition_score |-> 80, red_flags |-> << >> ] }

Pairs == [ job : RankedJobs, score : RankedScores ]

PairLists == UNION { [ 1..n -> Pairs ] : n \in 0..MaxPairs }

\* hasattr(job, 'discovered_at')
HasAttr(job, name) == name \in DOMAIN job

\* mutant: the key without its sign, as for an ascending sort
ranking_key_ascending(job_score_pair) ==
    LET job   == job_score_pair.job
        score == job_score_pair.score
        boosted == score.overall_score * 10
                   + (IF score.confidence_level > 80 /\ score.technical_score >= 70
                      THEN 50 ELSE 0)
                   + (IF score.transition_score >= 80 THEN 30 ELSE 0)
        primary_score == IF score.red_flags # << >>
                         THEN boosted - Len(score.red_flags) * 20
                         ELSE boosted
        recency_bonus == IF HasAttr(job, "discovered_at") THEN 1 ELSE 0
    IN primary_score + recency_bonus

\* ranking_key of rank_opportunities
ranking_key(job_score_pair) ==
    LET job   == job_score_pair.job
        score == job_score_pair.score
        boosted == score.overall_score * 10
                   + (IF score.confidence_level > 80 /\ score.technical_score >= 70
                      THEN 50 ELSE 0)
                   + (IF score.transition_score >= 80 THEN 30 ELSE 0)
        primary_score == IF score.red_flags # << >>
                         THEN boosted - Len(score.red_flags) * 20
                         ELSE boosted
        recency_bonus == IF HasAttr(job, "discovered_at") THEN 1 ELSE 0
    IN 0 - (primary_score + recency_bonus)

\* where a stable ascending sort puts x in an already sorted list: behind
\* every element whose key is not larger
InsertSorted(sorted_list, x) ==
    LET later == { i \in 1..Len(sorted_list) : ranking_key(sorted_list[i]) > ranking_key(x) }
        at    == IF later = {} THEN Len(sorted_list) + 1
                 ELSE CHOOSE i \in later : \A j \in later : i <= j
    IN SubSeq(sorted_list, 1, at - 1) \o << x >> \o SubSeq(sorted_list, at, Len(sorted_list))

RECURSIVE Sorted(_)
\* sorted(jobs_with_scores, key=ranking_key): ascending by key, stable
Sorted(list) ==
    IF list = << >> THEN << >>
    ELSE InsertSorted(Sorted(SubSeq(list, 1, Len(list) - 1)), list[Len(list)])

RankIdle ==
    /\ rank_pc = "idle"
    /\ jobs_with_scores = << >>
    /\ ranked_jobs = << >>

DedupIdle ==
    /\ dedup_pc = "idle"
    /\ all_jobs = << >>
    /\ unique_jobs = << >>

StoreInit ==
    /\ job_opportunities = {}
    /\ applications = {}
    /\ store_call = [ op |-> "none" ]

\* no CommanderHub
HubIdle ==
    /\ config = NoObject
    /\ daily_stats = NoObject
    /\ hub_pc = "idle"
    /\ queued_jobs = << >>

Layer2Idle == RankIdle /\ DedupIdle /\ StoreInit /\ HubIdle

\* mutant: the list is sorted in place (list.sort) and returned
RankOpportunitiesInPlace ==
    /\ rank_pc \in { "idle", "returned" }
    /\ ranked_jobs' = Sorted(jobs_with_scores)
    /\ jobs_with_scores' = Sorted(jobs_with_scores)
    /\ rank_pc' = "returned"

\* rank_opportunities; a caller may rank the same list again
RankOpportunities ==
    /\ rank_pc \in { "idle", "returned" }
    /\ ranked_jobs' = Sorted(jobs_with_scores)
    /\ jobs_with_scores' = jobs_with_scores
    /\ rank_pc' = "returned"

----------------------------------------------------------------------------
(* JobDiscoveryEngine._deduplicate_jobs (job_discovery_engine.py)           *)
(* A string is the sequence of its pieces: words, "_" and " "               *)

\* str.lower() on one piece
LowerPiece(piece) ==
    CASE piece = "Engineer" -> "engineer"
      [] piece = "ENGINEER" -> "engineer"
      [] piece = "AI"       -> "ai"
      [] piece = "Labs"     -> "labs"
      [] OTHER              -> piece

\* str.lower()
Lower(str) == [ i \in 1..Len(str) |-> LowerPiece(str[i]) ]

RECURSIVE Strip(_)
\* str.strip(): without leading and trailing whitespace
Strip(str) ==
    IF str = << >> THEN str
    ELSE IF Head(str) = " " THEN Strip(Tail(str))
    ELSE IF str[Len(str)] = " " THEN Strip(SubSeq(str, 1, Len(str) - 1))
    ELSE str

\* the similarity key f"{job.title.lower().strip()}_{job.company.lower().strip()}"
SimilarityKey(job) == Strip(Lower(job.title)) \o << "_" >> \o Strip(Lower(job.company))

\* source_priority.get(source, 0)
SourcePriority(source) ==
    CASE source = "linkedin" -> 3
      [] source = "indeed"   -> 2
      [] source = "company"  -> 1
      [] source = "hn_jobs"  -> 1
      [] OTHER               -> 0

JobTitles == { << "Engineer" >>, << " ", "ENGINEER" >>, << "Engineer", "_", "AI" >> }

JobCompanies == { << "Labs" >>, << "AI", "_", "Labs" >> }

JobSources == { "linkedin", "indeed", "hn_jobs" }

ScrapedJobs == [ title : JobTitles, company : JobCompanies, source : JobSources ]

JobLists == UNION { [ 1..n -> ScrapedJobs ] : n \in 0..MaxJobs }

\* list.remove(x): without the first element equal to x
ListRemove(list, x) ==
    LET at == CHOOSE i \in 1..Len(list) : list[i] = x /\ \A j \in 1..(i - 1) : list[j] # x
    IN SubSeq(list, 1, at - 1) \o SubSeq(list, at + 1, Len(list))

\* mutant: the job of the higher-priority source is appended and the
\* existing job is not removed
DedupVisitKeepBoth(st, job) ==
    LET key == SimilarityKey(job)
    IN IF key \notin DOMAIN st.seen_jobs
       THEN [ seen_jobs   |-> [ k \in DOMAIN st.seen_jobs \cup { key } |->
                                   IF k = key THEN job ELSE st.seen_jobs[k] ],
              unique_jobs |-> Append(st.unique_jobs, job) ]
       ELSE LET existing_job == st.seen_jobs[key]
            IN IF SourcePriority(job.source) > SourcePriority(existing_job.source)
               THEN [ seen_jobs   |-> [ st.seen_jobs EXCEPT ![key] = job ],
                      unique_jobs |-> Append(st.unique_jobs, job) ]
               ELSE st

\* one pass of the loop body of _deduplicate_jobs; st holds seen_jobs (a
\* function from the keys seen to jobs) and unique_jobs
DedupVisit(st, job) ==
    LET key == SimilarityKey(job)
    IN IF key \notin DOMAIN st.seen_jobs
       THEN [ seen_jobs   |-> [ k \in DOMAIN st.seen_jobs \cup { key } |->
                                   IF k = key THEN job ELSE st.seen_jobs[k] ],
              unique_jobs |-> Append(st.unique_jobs, job) ]
       ELSE LET existing_job == st.seen_jobs[key]
            IN IF SourcePriority(job.source) > SourcePriority(existing_job.source)
               THEN [ seen_jobs   |-> [ st.seen_jobs EXCEPT ![key] = job ],
                      unique_jobs |-> Append(ListRemove(st.unique_jobs, existing_job), job) ]
               ELSE st

RECURSIVE DedupLoop(_)
\* the for loop of _deduplicate_jobs over the list
DedupLoop(list) ==
    IF list = << >> THEN [ seen_jobs |-> << >>, unique_jobs |-> << >> ]
    ELSE DedupVisit(DedupLoop(SubSeq(list, 1, Len(list) - 1)), list[Len(list)])

\* _deduplicate_jobs
DeduplicateJobs ==
    /\ dedup_pc = "idle"
    /\ unique_jobs' = DedupLoop(all_jobs).unique_jobs
    /\ dedup_pc' = "returned"
    /\ UNCHANGED all_jobs

----------------------------------------------------------------------------
(* JobDatabase (job_discovery_engine.py) and the applications table of      *)
(* CommanderHub (commander_hub.py).  A table is the set of its rows; scores *)
(* in tenths; discovered_at is a time, larger is later                      *)

JobIds == { "a", "b", "c" }

\* a JobOpportunity as the scrapers build it: status 'discovered', score 0.0
ScrapedJob(job_id) ==
    [ job_id |-> job_id, status |-> "discovered", relevance_score |-> 0,
      priority_score |-> 0, discovered_at |-> 2 ]

\* the JobOpportunity objects passed to save_job: scored jobs, jobs whose
\* status a caller has moved on, and jobs as scraped
SavedJobs ==
    { [ job_id |-> "a", status |-> "discovered", relevance_score |-> 80,
        priority_score |-> 80, discovered_at |-> 1 ],
      [ job_id |-> "a", status |-> "submitted",  relevance_score |-> 80,
        priority_score |-> 80, discovered_at |-> 1 ],
      [ job_id |-> "b", status |-> "discovered", relevance_score |-> 80,
        priority_score |-> 90, discovered_at |-> 2 ],
      [ job_id |-> "c", status |-> "discovered", relevance_score |-> 60,
        priority_score |-> 60, discovered_at |-> 1 ],
      [ job_id |-> "c", status |-> "submitted",  relevance_score |-> 60,
        priority_score |-> 60, discovered_at |-> 1 ] }
    \cup { ScrapedJob(job_id) : job_id \in JobIds }

\* mutant: a plain INSERT into a table without the primary key
Insert(table, row) == table \cup { row }

\* INSERT OR REPLACE on the primary key job_id
InsertOrReplace(table, row) ==
    { r \in table : r.job_id # row.job_id } \cup { row }

\* save_job; the statement can fail (locked or unwritable file), the except
\* branch then returns False and the table is as before
SaveJob ==
    \E job \in SavedJobs, ok \in BOOLEAN :
        /\ job_opportunities' = IF ok THEN InsertOrReplace(job_opportunities, job)
                                ELSE job_opportunities
        /\ store_call' = [ op |-> "save_job", arg |-> job, fault |-> ~ok, ret |-> ok ]
        /\ UNCHANGED applications

RECURSIVE SaveAll(_, _)
\* for job in unique_jobs: self.database.save_job(job)
SaveAll(table, job_ids) ==
    IF job_ids = {} THEN table
    ELSE LET job_id == CHOOSE x \in job_ids : TRUE
         IN SaveAll(InsertOrReplace(table, ScrapedJob(job_id)), job_ids \ { job_id })

\* mutant: only the jobs that could be saved are returned
DiscoverJobsSavedOnly ==
    \E found \in SUBSET JobIds :
        \E failed \in SUBSET found :
            /\ job_opportunities' = SaveAll(job_opportunities, found \ failed)
            /\ store_call' = [ op |-> "discover_jobs", arg |-> found, fault |-> failed,
                               ret |-> found \ failed ]
            /\ UNCHANGED applications

\* discover_jobs: the scraped jobs, deduplicated, are saved as scraped and
\* returned; the value save_job returns for a job is not looked at
DiscoverJobs ==
    \E found \in SUBSET JobIds :
        \E failed \in SUBSET found :
            /\ job_opportunities' = SaveAll(job_opportunities, found \ failed)
            /\ store_call' = [ op |-> "discover_jobs", arg |-> found, fault |-> failed,
                               ret |-> found ]
            /\ UNCHANGED applications

StatusArgs == { "discovered", "submitted" }

\* the limit argument: None, or a number
NoLimit == [ given |-> FALSE, n |-> 0 ]
Limits == { NoLimit } \cup { [ given |-> TRUE, n |-> n ] : n \in 0..2 }

\* "if limit:" of get_jobs_by_status
Truthy(limit) == limit.given /\ limit.n # 0

\* ORDER BY relevance_score DESC, discovered_at DESC
OrderedBefore(r1, r2) ==
    \/ r1.relevance_score > r2.relevance_score
    \/ (r1.relevance_score = r2.relevance_score /\ r1.discovered_at > r2.discovered_at)

\* the orders in which the statement can return the rows: rows that tie on
\* both columns come in any order
Orderings(rows) ==
    { seq \in [ 1..Cardinality(rows) -> rows ] :
        /\ \A i, j \in 1..Cardinality(rows) : i # j => seq[i] # seq[j]
        /\ \A i, j \in 1..Cardinality(rows) : i < j => ~OrderedBefore(seq[j], seq[i]) }

\* LIMIT n, appended only for a truthy limit
Limited(seq, limit) ==
    IF Truthy(limit) /\ limit.n < Len(seq) THEN SubSeq(seq, 1, limit.n) ELSE seq

\* the lists get_jobs_by_status can return; [] from the except branch
JobsByStatus(table, status, limit, ok) ==
    IF ok THEN { Limited(seq, limit) : seq \in Orderings({ r \in table : r.status = status }) }
    ELSE { << >> }

\* get_jobs_by_status
GetJobsByStatus ==
    \E status \in StatusArgs, limit \in Limits, ok \in BOOLEAN :
        \E rows \in JobsByStatus(job_opportunities, status, limit, ok) :
            /\ store_call' = [ op |-> "get_jobs_by_status",
                               arg |-> [ status |-> status, limit |-> limit ],
                               fault |-> ~ok, ret |-> rows ]
            /\ UNCHANGED << job_opportunities, applications >>

\* ORDER BY relevance_score DESC, priority_score DESC
TopOrderedBefore(r1, r2) ==
    \/ r1.relevance_score > r2.relevance_score
    \/ (r1.relevance_score = r2.relevance_score /\ r1.priority_score > r2.priority_score)

\* the orders in which the statement of get_top_opportunities can return rows
TopOrderings(rows) ==
    { seq \in [ 1..Cardinality(rows) -> rows ] :
        /\ \A i, j \in 1..Cardinality(rows) : i # j => seq[i] # seq[j]
        /\ \A i, j \in 1..Cardinality(rows) : i < j => ~TopOrderedBefore(seq[j], seq[i]) }

\* mutant: WHERE status = 'discovered' without the score condition
TopCandidatesAnyScore(table) == { r \in table : r.status = "discovered" }

\* WHERE status = 'discovered' AND relevance_score > 0
TopCandidates(table) ==
    { r \in table : r.status = "discovered" /\ r.relevance_score > 0 }

\* LIMIT ? with the limit bound to it
FirstRows(seq, limit) == IF limit < Len(seq) THEN SubSeq(seq, 1, limit) ELSE seq

\* the lists get_top_opportunities can return; [] from the except branch
TopOpportunities(table, limit, ok) ==
    IF ok THEN { FirstRows(seq, limit) : seq \in TopOrderings(TopCandidates(table)) }
    ELSE { << >> }

\* limits passed to get_top_opportunities
TopLimits == 0..3

\* get_top_opportunities
GetTopOpportunities ==
    \E limit \in TopLimits, ok \in BOOLEAN :
        \E rows \in TopOpportunities(job_opportunities, limit, ok) :
            /\ store_call' = [ op |-> "get_top_opportunities", arg |-> limit,
                               fault |-> ~ok, ret |-> rows ]
            /\ UNCHANGED << job_opportunities, applications >>

\* ids _generate_application_id can give: a new one, or, within the same
\* second and hash, one already used
ApplicationIds == 1..MaxApplications

\* _queue_for_application: INSERT OR IGNORE on the primary key id
QueueForApplication ==
    \E job_id \in { "a", "b" }, id \in ApplicationIds :
        /\ applications' =
              IF \E r \in applications : r.id = id THEN applications
              ELSE applications \cup { [ id |-> id, job_id |-> job_id, status |-> "queued" ] }
        /\ store_call' = [ op |-> "queue_for_application", arg |-> job_id, ret |-> id ]
        /\ UNCHANGED job_opportunities

\* _get_queued_jobs
QueuedJobs == { r.job_id : r \in { q \in applications : q.status = "queued" } }

\* _generate_sophisticated_application on a queued job: on a result the
\* record is saved with status 'generated' by UPDATE ... WHERE job_id = ?
GenerateApplication ==
    \E job_id \in QueuedJobs, generated \in BOOLEAN :
        /\ applications' =
              IF generated
              THEN { IF r.job_id = job_id THEN [ r EXCEPT !.status = "generated" ] ELSE r :
                     r \in applications }
              ELSE applications
        /\ store_call' = [ op |-> "generate_application", arg |-> job_id, ret |-> generated ]
        /\ UNCHANGED job_opportunities

----------------------------------------------------------------------------
(* CommanderHub (commander_hub.py): the application generation cycle and the *)
(* queueing the discovery cycle does between its steps                       *)

\* the lists _get_queued_jobs can return: one job per queued row
QueuedLists ==
    LET rows == { r \in applications : r.status = "queued" }
    IN { [ i \in 1..Cardinality(rows) |-> seq[i].job_id ] :
           seq \in { q \in [ 1..Cardinality(rows) -> rows ] :
                       \A i, j \in 1..Cardinality(rows) : i # j => q[i] # q[j] } }

\* queued_jobs[:max_daily_applications]
Slice(list, n) == IF n < Len(list) THEN SubSeq(list, 1, n) ELSE list

\* the cycle wakes up, reads the queued jobs and starts its loop over them
GetQueuedJobs ==
    /\ hub_pc = "sleeping"
    /\ \E list \in QueuedLists :
          queued_jobs' = Slice(list, config.max_daily_applications)
    /\ hub_pc' = "looping"
    /\ UNCHANGED << config, daily_stats, storeVars >>

\* the daily limit check of the loop finds the limit reached and breaks
LimitReached ==
    /\ hub_pc = "looping"
    /\ queued_jobs # << >>
    /\ daily_stats.applications_generated >= config.max_daily_applications
    /\ queued_jobs' = << >>
    /\ hub_pc' = "limit_reached"
    /\ UNCHANGED << config, daily_stats, storeVars >>

\* outcomes of process_job_application and of saving the record
GenerationOutcomes == { "generated", "failed", "raises" }

\* mutant: the loop generates without looking at the daily limit
GenerateSophisticatedApplicationUnchecked ==
    /\ hub_pc = "looping"
    /\ queued_jobs # << >>
    /\ \E o \in GenerationOutcomes :
          IF o = "generated"
          THEN /\ applications' =
                     { IF r.job_id = Head(queued_jobs)
                       THEN [ r EXCEPT !.status = "generated" ] ELSE r : r \in applications }
               /\ daily_stats' = [ daily_stats EXCEPT !.applications_generated = @ + 1 ]
          ELSE UNCHANGED << applications, daily_stats >>
    /\ queued_jobs' = Tail(queued_jobs)
    /\ UNCHANGED << config, hub_pc, job_opportunities, store_call >>

\* one pass of the loop body that passes the limit check:
\* _generate_sophisticated_application on the next job of the list
GenerateSophisticatedApplication ==
    /\ hub_pc = "looping"
    /\ queued_jobs # << >>
    /\ daily_stats.applications_generated < config.max_daily_applications
    /\ \E o \in GenerationOutcomes :
          IF o = "generated"
          THEN /\ applications' =
                     { IF r.job_id = Head(queued_jobs)
                       THEN [ r EXCEPT !.status = "generated" ] ELSE r : r \in applications }
               /\ daily_stats' = [ daily_stats EXCEPT !.applications_generated = @ + 1 ]
          ELSE UNCHANGED << applications, daily_stats >>
    /\ queued_jobs' = Tail(queued_jobs)
    /\ UNCHANGED << config, hub_pc, job_opportunities, store_call >>

\* the loop is over (list exhausted or break) and the cycle sleeps
CycleSleep ==
    /\ hub_pc \in { "looping", "limit_reached" }
    /\ queued_jobs = << >>
    /\ hub_pc' = "sleeping"
    /\ UNCHANGED << config, daily_stats, queued_jobs, storeVars >>

\* the discovery cycle queues a job between two steps of the generation cycle
DiscoveryQueues ==
    /\ QueueForApplication
    /\ UNCHANGED hubVars

\* CommanderHub.__init__ with a loaded or default configuration, then
\* start_continuous_automation
HubInit ==
    /\ config \in { [ max_daily_applications |-> n ] : n \in 0..MaxDailyApplications }
    /\ daily_stats = [ applications_generated |-> 0 ]
    /\ hub_pc = "sleeping"
    /\ queued_jobs = << >>

----------------------------------------------------------------------------
(* Specification: either one process_job_application call on a constructed   *)
(* ApplicationEngine, or one generate_ai_application call on a constructed   *)
(* AIPoweredApplicationEngine (as test_ai_application_engine makes it)       *)

AIIdle ==
    /\ ai_pc = "idle"
    /\ ai_content = << >>

ScoreIdle ==
    /\ filter_mode = None
    /\ scored_job = NoObject
    /\ ai_reply = NoObject
    /\ scoring = NoObject

EngineInit ==
    /\ \E key \in BOOLEAN : engine = NewEngine(key)
    /\ main_pc = "idle"
    /\ job_data = NoObject
    /\ package = NoObject
    /\ exc = None
    /\ attempted = << >>

AIReady ==
    /\ ai_pc = "ready"
    /\ ai_content = << >>

Init ==
    /\ TrackerInit
    /\ call_log = << >>
    /\ OrchInit
    /\ ScoreIdle
    /\ Layer2Idle
    /\ \/ (EngineInit /\ AIIdle)
       \/ (NoEngine /\ AIReady)

Next ==
    \/ (ProcessJobApplication /\ UNCHANGED << aiVars, scoreVars, layer2Vars, call_log >>)
    \/ (GenerateStart /\ UNCHANGED << aiVars, scoreVars, layer2Vars, call_log >>)
    \/ (TaskStart /\ UNCHANGED << aiVars, scoreVars, layer2Vars >>)
    \/ (TaskFinish /\ UNCHANGED << aiVars, scoreVars, layer2Vars, call_log >>)
    \/ (ResearchBarrier /\ UNCHANGED << aiVars, scoreVars, layer2Vars, call_log >>)
    \/ (ContentBarrier /\ UNCHANGED << aiVars, scoreVars, layer2Vars, call_log >>)
    \/ (PackageParallel /\ UNCHANGED << aiVars, scoreVars, layer2Vars, call_log >>)
    \/ (ParallelFailed /\ UNCHANGED << aiVars, scoreVars, layer2Vars, call_log >>)
    \/ (ProcessWithAIEngine /\ UNCHANGED << aiVars, scoreVars, layer2Vars, call_log >>)
    \/ (ProcessWithTemplate /\ UNCHANGED << aiVars, scoreVars, layer2Vars, call_log >>)
    \/ (AIStart /\ UNCHANGED << engineVars, orchVars, scoreVars, layer2Vars, call_log >>)
    \/ (AIResearchAndCoverLetter /\ UNCHANGED << engineVars, orchVars, scoreVars, layer2Vars >>)
    \/ (AIExecutiveSummary /\ UNCHANGED << engineVars, orchVars, scoreVars, layer2Vars >>)
    \/ (AIInterviewPrep /\ UNCHANGED << engineVars, orchVars, scoreVars, layer2Vars >>)
    \/ (AISuccessStrategyAndPackage /\ UNCHANGED << engineVars, orchVars, scoreVars, layer2Vars >>)

Spec == Init /\ [][Next]_vars

----------------------------------------------------------------------------
(* Specification of a ProgressTracker called through its public methods *)

InitTracker ==
    /\ TrackerInit
    /\ call_log = << >>
    /\ NoEngine
    /\ OrchInit
    /\ AIIdle
    /\ ScoreIdle
    /\ Layer2Idle

NextTracker ==
    \/ (CallStart /\ UNCHANGED << engineVars, orchVars, aiVars, scoreVars, layer2Vars, call_log >>)
    \/ (CallUpdateStage /\ UNCHANGED << engineVars, orchVars, aiVars, scoreVars, layer2Vars, call_log >>)
    \/ (CallUpdateProgress /\ UNCHANGED << engineVars, orchVars, aiVars, scoreVars, layer2Vars, call_log >>)
    \/ (CallComplete /\ UNCHANGED << engineVars, orchVars, aiVars, scoreVars, layer2Vars, call_log >>)
    \/ (CallError /\ UNCHANGED << engineVars, orchVars, aiVars, scoreVars, layer2Vars, call_log >>)

SpecTracker == InitTracker /\ [][NextTracker]_vars

----------------------------------------------------------------------------
(* Specification of one score_opportunity call on a constructed filter *)

InitScore ==
    /\ TrackerInit
    /\ call_log = << >>
    /\ NoEngine
    /\ OrchInit
    /\ AIIdle
    /\ \E has_key \in BOOLEAN, fallback_mode \in BOOLEAN, client_ok \in BOOLEAN :
         filter_mode = FilterMode(has_key, fallback_mode, client_ok)
    /\ scored_job = NoObject
    /\ ai_reply = NoObject
    /\ scoring = NoObject
    /\ Layer2Idle

NextScore ==
    ScoreOpportunity /\ UNCHANGED << trackerVars, engineVars, orchVars, aiVars, layer2Vars, call_log >>

SpecScore == InitScore /\ [][NextScore]_vars

----------------------------------------------------------------------------
(* Specification of rank_opportunities called on a list of pairs *)

InitRank ==
    /\ TrackerInit
    /\ call_log = << >>
    /\ NoEngine
    /\ OrchInit
    /\ AIIdle
    /\ ScoreIdle
    /\ rank_pc = "idle"
    /\ jobs_with_scores \in PairLists
    /\ ranked_jobs = << >>
    /\ DedupIdle
    /\ StoreInit
    /\ HubIdle

NextRank ==
    RankOpportunities /\ UNCHANGED << trackerVars, engineVars, orchVars, aiVars, scoreVars, dedupVars, storeVars, hubVars, call_log >>

SpecRank == InitRank /\ [][NextRank]_vars

----------------------------------------------------------------------------
(* Specification of _deduplicate_jobs called on a list of scraped jobs *)

InitDedup ==
    /\ TrackerInit
    /\ call_log = << >>
    /\ NoEngine
    /\ OrchInit
    /\ AIIdle
    /\ ScoreIdle
    /\ RankIdle
    /\ dedup_pc = "idle"
    /\ all_jobs \in JobLists
    /\ unique_jobs = << >>
    /\ StoreInit
    /\ HubIdle

NextDedup ==
    DeduplicateJobs /\ UNCHANGED << trackerVars, engineVars, orchVars, aiVars, scoreVars, rankVars, storeVars, hubVars, call_log >>

SpecDedup == InitDedup /\ [][NextDedup]_vars

----------------------------------------------------------------------------
(* Specification of the two stores under discovery, save, query, queue and  *)
(* generation calls                                                         *)

InitStore ==
    /\ TrackerInit
    /\ call_log = << >>
    /\ NoEngine
    /\ OrchInit
    /\ AIIdle
    /\ ScoreIdle
    /\ RankIdle
    /\ DedupIdle
    /\ StoreInit
    /\ HubIdle

NextStore ==
    \/ (SaveJob /\ UNCHANGED << trackerVars, engineVars, orchVars, aiVars, scoreVars, rankVars, dedupVars, hubVars, call_log >>)
    \/ (DiscoverJobs /\ UNCHANGED << trackerVars, engineVars, orchVars, aiVars, scoreVars, rankVars, dedupVars, hubVars, call_log >>)
    \/ (GetJobsByStatus /\ UNCHANGED << trackerVars, engineVars, orchVars, aiVars, scoreVars, rankVars, dedupVars, hubVars, call_log >>)
    \/ (GetTopOpportunities /\ UNCHANGED << trackerVars, engineVars, orchVars, aiVars, scoreVars, rankVars, dedupVars, hubVars, call_log >>)
    \/ (QueueForApplication /\ UNCHANGED << trackerVars, engineVars, orchVars, aiVars, scoreVars, rankVars, dedupVars, hubVars, call_log >>)
    \/ (GenerateApplication /\ UNCHANGED << trackerVars, engineVars, orchVars, aiVars, scoreVars, rankVars, dedupVars, hubVars, call_log >>)

SpecStore == InitStore /\ [][NextStore]_vars

----------------------------------------------------------------------------
(* Specification of the application generation cycle of CommanderHub with  *)
(* the discovery cycle queueing jobs between its steps                      *)

InitHub ==
    /\ TrackerInit
    /\ call_log = << >>
    /\ NoEngine
    /\ OrchInit
    /\ AIIdle
    /\ ScoreIdle
    /\ RankIdle
    /\ DedupIdle
    /\ StoreInit
    /\ HubInit

NextHub ==
    \/ (GetQueuedJobs /\ UNCHANGED << trackerVars, engineVars, orchVars, aiVars, scoreVars, rankVars, dedupVars, call_log >>)
    \/ (LimitReached /\ UNCHANGED << trackerVars, engineVars, orchVars, aiVars, scoreVars, rankVars, dedupVars, call_log >>)
    \/ (GenerateSophisticatedApplication /\ UNCHANGED << trackerVars, engineVars, orchVars, aiVars, scoreVars, rankVars, dedupVars, call_log >>)
    \/ (CycleSleep /\ UNCHANGED << trackerVars, engineVars, orchVars, aiVars, scoreVars, rankVars, dedupVars, call_log >>)
    \/ (DiscoveryQueues /\ UNCHANGED << trackerVars, engineVars, orchVars, aiVars, scoreVars, rankVars, dedupVars, call_log >>)

SpecHub == InitHub /\ [][NextHub]_vars

----------------------------------------------------------------------------
(* Specification of process_job_application on an ApplicationEngine that has *)
(* already produced a package in parallel mode: the ParallelAIEngine made in *)
(* __init__ is the one every call uses, and the nine calls of the earlier    *)
(* job all returned                                                          *)

\* api_calls_made of the engine after the earlier job
PriorCalls == Cardinality(AllTasks)

InitReuse ==
    /\ TrackerInit
    /\ call_log = << >>
    /\ orch_pc = "idle"
    /\ orch_exc = None
    /\ task = [ n \in AllTasks |-> "new" ]
    /\ outcome = [ n \in AllTasks |-> "none" ]
    /\ result = [ n \in AllTasks |-> NoResult ]
    /\ api_calls_made = PriorCalls
    /\ application = NoObject
    /\ ScoreIdle
    /\ Layer2Idle
    /\ engine = NewEngine(TRUE)
    /\ main_pc = "idle"
    /\ job_data = NoObject
    /\ package = NoObject
    /\ exc = None
    /\ attempted = << >>
    /\ AIIdle

NextReuse ==
    \/ (ProcessJobApplication /\ UNCHANGED << aiVars, scoreVars, layer2Vars, call_log >>)
    \/ (GenerateStart /\ UNCHANGED << aiVars, scoreVars, layer2Vars, call_log >>)
    \/ (TaskStart /\ UNCHANGED << aiVars, scoreVars, layer2Vars >>)
    \/ (TaskFinish /\ UNCHANGED << aiVars, scoreVars, layer2Vars, call_log >>)
    \/ (ResearchBarrier /\ UNCHANGED << aiVars, scoreVars, layer2Vars, call_log >>)
    \/ (ContentBarrier /\ UNCHANGED << aiVars, scoreVars, layer2Vars, call_log >>)
    \/ (PackageParallel /\ UNCHANGED << aiVars, scoreVars, layer2Vars, call_log >>)
    \/ (ParallelFailed /\ UNCHANGED << aiVars, scoreVars, layer2Vars, call_log >>)
    \/ (ProcessWithAIEngine /\ UNCHANGED << aiVars, scoreVars, layer2Vars, call_log >>)

SpecReuse == InitReuse /\ [][NextReuse]_vars

----------------------------------------------------------------------------
(* Claims *)

Started(n) == task[n] \in { "calling", "done" }

Finished(n) == task[n] = "done" /\ result[n] \in { Output(n), Fallback(n) }

\* C1: in a parallel run no phase-2 task issues its external call before all
\* four phase-1 tasks have finished with a success or a fallback value, and
\* the run returns its assembled application only after all five phase-2
\* tasks have finished
C1_PhaseBarrier ==
    /\ (\E n \in SeqRange(ContentTasks) : Started(n)) =>
          \A m \in SeqRange(ResearchTasks) : Finished(m)
    /\ (orch_pc = "returned" \/ application # NoObject) =>
          \A n \in AllTasks : Finished(n)

\* a phase-2 call is in flight after phase 1 ended with a failure and a success
C1_Witness ==
    /\ task["executive_summary"] = "calling"
    /\ result["company_intelligence"] = Fallback("company_intelligence")
    /\ result["strategic_positioning"] = Output("strategic_positioning")

C2_Step ==
    \A n \in AllTasks :
        (outcome[n] = "none" /\ outcome'[n] \in { "raises", "no_content" }) =>
            /\ result'[n] = Fallback(n)
            /\ \A m \in AllTasks \ { n } : task'[m] = task[m] /\ result'[m] = result[m]
            /\ orch_pc' = orch_pc
            /\ orch_exc' = orch_exc

C2_State ==
    /\ \A m \in AllTasks : task[m] = "done" => result[m].of = m
    /\ (orch_pc = "research" /\ \A m \in SeqRange(ResearchTasks) : task[m] = "done")
          => ENABLED ResearchBarrier
    /\ (orch_pc = "content" /\ \A m \in SeqRange(ContentTasks) : task[m] = "done")
          => ENABLED ContentBarrier

\* C2: when the external call of a task fails, the task yields its placeholder
\* string, the step changes no other task and does not abort the run, every
\* finished task holds its own result, and once all tasks of a phase have
\* finished the orchestrator can go on to the next phase
C2_TaskIsolation == []C2_State /\ [][C2_Step]_vars

\* phase 2 has started after a phase 1 in which one call raised and the other
\* three tasks completed with their own output
C2_Witness ==
    /\ orch_pc = "content"
    /\ outcome["competitive_analysis"] = "raises"
    /\ result["competitive_analysis"] = Fallback("competitive_analysis")
    /\ \A m \in SeqRange(ResearchTasks) \ { "competitive_analysis" } :
          outcome[m] = "ok" /\ result[m] = Output(m)

Tried(mode) == \E i \in 1..Len(attempted) : attempted[i] = mode

\* C3: when the parallel run fails, process_job_application retries in AI mode
\* and then in TEMPLATE mode, and an exception reaches the caller only after
\* TEMPLATE generation was attempted
C3_DowngradeChain ==
    /\ (Len(attempted) >= 2 /\ attempted[1] = "parallel") => attempted[2] = "ai"
    /\ (main_pc = "raised" /\ Tried("parallel")) => Tried("template")

\* C4: without a credential, process_job_application for a given job returns a
\* package whose mode is TEMPLATE and never raises
C4_TemplatePackage ==
    (engine # NoObject /\ ~engine.api_key /\ job_data # NoObject /\
     main_pc \in { "returned", "raised" }) =>
        /\ main_pc = "returned"
        /\ package # NoObject
        /\ "mode" \in DOMAIN package
        /\ package["mode"] = "TEMPLATE"

\* the task that produces each content field of the package
FieldTask ==
    [ executive_summary     |-> "executive_summary",
      cover_letter          |-> "sophisticated_cover_letter",
      strategic_positioning |-> "strategic_positioning",
      interview_preparation |-> "advanced_interview_prep",
      success_strategy      |-> "success_strategy",
      company_intelligence  |-> "company_intelligence",
      competitive_analysis  |-> "competitive_analysis",
      technical_alignment   |-> "technical_alignment",
      career_narrative      |-> "career_narrative" ]

\* C5: whatever subset of the nine calls fails, once all tasks have finished
\* phase 3 can run, and the returned package holds in each content field the
\* output of its task when the call succeeded and the marked fallback string
\* when it failed
C5_FallbackFields ==
    /\ (orch_pc = "content" /\ \A n \in AllTasks : task[n] = "done")
          => ENABLED ContentBarrier
    /\ orch_pc = "returned" =>
          /\ application # NoObject
          /\ \A f \in DOMAIN FieldTask :
                application[f] = IF outcome[FieldTask[f]] = "ok"
                                 THEN Output(FieldTask[f])
                                 ELSE Fallback(FieldTask[f])

\* the run returned its package although all nine calls failed
C5_Witness ==
    /\ orch_pc = "returned"
    /\ \A n \in AllTasks : outcome[n] \in { "raises", "no_content" }
    /\ application["cover_letter"] = Fallback("sophisticated_cover_letter")

\* mode, optimization level and quality scores of a returned package
Metadata(pkg) ==
    [ mode                    |-> pkg["mode"],
      application_score       |-> pkg["application_score"],
      optimization_level      |-> pkg["parallel_ai_application"]["optimization_level"],
      sophistication_score    |-> pkg["performance_metrics"]["sophistication_score"],
      personalization_depth   |-> pkg["performance_metrics"]["personalization_depth"],
      strategic_insight_score |-> pkg["performance_metrics"]["strategic_insight_score"] ]

\* the package of a run in which every call succeeded
CleanPackage ==
    ParallelPackage(TheJob,
        Integrate(ResearchDict([ n \in AllTasks |-> Output(n) ]),
                  ContentDict([ n \in AllTasks |-> Output(n) ]), 9))

\* C6: when a task of the run was replaced by a fallback value, the mode,
\* optimization level or quality scores of the returned package differ from
\* those of a run without fallback
C6_DegradationVisible ==
    (main_pc = "returned" /\ package # NoObject /\
     "parallel_ai_application" \in DOMAIN package /\
     \E f \in DOMAIN FieldTask : package["parallel_ai_application"][f].kind = "fallback")
        => Metadata(package) # Metadata(CleanPackage)

\* C7: within a generation run, in parallel mode and in single-threaded AI
\* mode, the progress percent of the successive stage updates never decreases
C7_MonotonePercent ==
    \A i, j \in 1..Len(tracker.progress_updates) :
        i < j => tracker.progress_updates[i].progress_percent
                    <= tracker.progress_updates[j].progress_percent

\* a single-threaded AI run has reported all its seven stages
C7_Witness ==
    /\ ai_pc = "returned"
    /\ Len(tracker.progress_updates) = 7
    /\ tracker.progress_updates[7].progress_percent
          > tracker.progress_updates[1].progress_percent

\* C8: once complete() or error() has been called, update_stage and
\* update_progress leave the tracker unchanged and show nothing
C8_TerminalTracker ==
    [][ (terminated /\ last_call' \in { "update_stage", "update_progress" })
            => tracker' = tracker ]_vars

C9_Step ==
    last_call' = "update_progress" =>
        /\ tracker'.current_stage = tracker.current_stage
        /\ StageIndex(tracker'.current_stage) = StageIndex(tracker.current_stage)
        /\ TrackerPercent(tracker') = TrackerPercent(tracker)
        /\ tracker'.progress_updates = tracker.progress_updates
        /\ tracker'.stage_timings = tracker.stage_timings

\* C9: update_progress leaves the current stage, its index and percent, the
\* recorded stage updates and the stage timings unchanged
C9_HeartbeatFrame == [][C9_Step]_vars

\* a heartbeat was shown by an active tracker that has recorded a stage update
C9_Witness ==
    /\ last_call = "update_progress"
    /\ tracker.is_active
    /\ Len(tracker.progress_updates) >= 1
    /\ tracker.display[Len(tracker.display)].kind = "mini"

WeightSum ==
    scoring_weights.technical + scoring_weights.transition + scoring_weights.culture
        + scoring_weights.growth + scoring_weights.compensation

\* C10: the five weights sum to 1.0 and every overall_score returned by
\* score_opportunity, on the external-analysis path and on the heuristic path,
\* lies in [0,10]
C10_ScoreRange ==
    /\ WeightSum = 100
    /\ scoring # NoObject => (scoring.overall_score >= 0 /\ scoring.overall_score <= 100)

\* the recommendation the thresholds give for a returned score, in tenths
ThresholdRecommendation(overall_score) ==
    IF overall_score >= 80 THEN "APPLY"
    ELSE IF overall_score >= 60 THEN "RESEARCH"
    ELSE "PASS"

\* C11: the recommendation of every ScoringResult returned by
\* score_opportunity agrees with its overall_score: APPLY from 8.0, RESEARCH
\* from 6.0 and below 8.0, PASS otherwise
C11_RecommendationAgrees ==
    scoring # NoObject =>
        scoring.action_recommendation = ThresholdRecommendation(scoring.overall_score)

\* C12: an opportunity whose text matches 5 of the AI keywords and carries no
\* red flag is returned with overall_score >= 8.0 and recommendation APPLY
C12_FiveKeywordsApply ==
    (/\ scoring # NoObject
     /\ Cardinality(TextTerms(scored_job) \cap ai_keywords) = 5
     /\ TextTerms(scored_job) \cap red_flag_keywords = {})
        => (scoring.overall_score >= 80 /\ scoring.action_recommendation = "APPLY")

\* the external analysis was tried and failed or answered something unusable
AnalysisFailed ==
    /\ scoring # NoObject
    /\ filter_mode = "ai"
    /\ ai_reply.kind \in { "raises", "malformed", "bad_type" }

\* the result is the heuristic result of the scored opportunity
IsHeuristicResult ==
    \E rounded \in Round1(WeightedScore(FallbackDimensions(scored_job))) :
        scoring = FallbackScore(scored_job, rounded)

AlwaysReturns ==
    (filter_mode # None /\ scoring = NoObject) => ENABLED ScoreOpportunity

Boost(score) ==
    (IF score.confidence_level > 80 /\ score.technical_score >= 70 THEN 50 ELSE 0)
    + (IF score.transition_score >= 80 THEN 30 ELSE 0)

AdjustedScore(pair) ==
    pair.score.overall_score * 10 + Boost(pair.score) - 20 * Len(pair.score.red_flags)

\* C14: rank_opportunities returns the pairs in non-increasing order of
\* adjusted score; of two pairs with equal overall_score and no boost the one
\* with fewer red flags comes first
C14_RankedByAdjustedScore ==
    rank_pc = "returned" =>
        \A i, j \in 1..Len(ranked_jobs) :
            /\ i < j => AdjustedScore(ranked_jobs[i]) >= AdjustedScore(ranked_jobs[j])
            /\ (/\ ranked_jobs[i].score.overall_score = ranked_jobs[j].score.overall_score
                /\ Boost(ranked_jobs[i].score) = 0
                /\ Boost(ranked_jobs[j].score) = 0
                /\ Len(ranked_jobs[i].score.red_flags) < Len(ranked_jobs[j].score.red_flags))
                   => i < j

\* a 7.0 with two red flags was given first and came back behind a plain 7.0
\* and a boosted 6.8
C14_Witness ==
    /\ rank_pc = "returned"
    /\ Len(jobs_with_scores) = 3
    /\ Len(jobs_with_scores[1].score.red_flags) = 2
    /\ Len(ranked_jobs[3].score.red_flags) = 2
    /\ ranked_jobs[1].score.overall_score = 68
    /\ ranked_jobs[2].score.overall_score = 70

\* C15: of two pairs with the same adjusted score the one discovered more
\* recently is placed first, whatever their order in the input
C15_NewerFirst ==
    rank_pc = "returned" =>
        \A i, j \in 1..Len(ranked_jobs) :
            (i < j /\ AdjustedScore(ranked_jobs[i]) = AdjustedScore(ranked_jobs[j]))
                => ranked_jobs[i].job.discovered_at >= ranked_jobs[j].job.discovered_at

\* number of times x occurs in a list
Count(list, x) == Cardinality({ i \in 1..Len(list) : list[i] = x })

C16_Step ==
    rank_pc' = "returned" =>
        /\ jobs_with_scores' = jobs_with_scores
        /\ Len(ranked_jobs') = Len(jobs_with_scores)
        /\ \A x \in Pairs : Count(ranked_jobs', x) = Count(jobs_with_scores, x)
        /\ rank_pc = "returned" => ranked_jobs' = ranked_jobs

\* C16: rank_opportunities returns a permutation of its input, leaves the
\* input list and the pairs in it unchanged, and ranking the same list again
\* gives the same list
C16_RankPure == [][C16_Step]_vars

\* a list holding the same pair twice, out of order, was ranked
C16_Witness ==
    /\ rank_pc = "returned"
    /\ Len(jobs_with_scores) = 3
    /\ jobs_with_scores[1] = jobs_with_scores[3]
    /\ jobs_with_scores # ranked_jobs
    /\ Count(ranked_jobs, jobs_with_scores[1]) = 2

\* two jobs share their normalized title and their normalized company
SameGroup(a, b) ==
    /\ Strip(Lower(a.title)) = Strip(Lower(b.title))
    /\ Strip(Lower(a.company)) = Strip(Lower(b.company))

\* C17: for every group of input jobs with the same normalized title and
\* company, _deduplicate_jobs keeps a job of the group whose source has the
\* highest priority present in the group, whatever the order of the input
C17_HighestPriorityKept ==
    dedup_pc = "returned" =>
        \A i \in 1..Len(all_jobs) :
            \E k \in 1..Len(unique_jobs) :
                /\ SameGroup(unique_jobs[k], all_jobs[i])
                /\ \A j \in 1..Len(all_jobs) :
                      SameGroup(all_jobs[j], all_jobs[i]) =>
                          SourcePriority(unique_jobs[k].source)
                              >= SourcePriority(all_jobs[j].source)

UniqueJobId ==
    \A r1, r2 \in job_opportunities : r1.job_id = r2.job_id => r1 = r2

C18_Step ==
    (store_call'.op = "save_job" /\ store_call'.ret) =>
        LET job == store_call'.arg
        IN /\ \A r \in job_opportunities' : r.job_id = job.job_id <=> r = job
           /\ job \in job_opportunities'
           /\ { r \in job_opportunities' : r.job_id # job.job_id }
                 = { r \in job_opportunities : r.job_id # job.job_id }
           /\ Cardinality(job_opportunities') =
                 Cardinality(job_opportunities)
                 + (IF \E r \in job_opportunities : r.job_id = job.job_id THEN 0 ELSE 1)

\* C18: the job_opportunities table holds one row per job_id after any
\* sequence of calls; save_job with a job_id that is stored replaces that row
\* with the new values, leaves the other rows alone and adds no row
C18_OneRowPerJobId == []UniqueJobId /\ [][C18_Step]_vars

\* job "a" was saved with a later status and other values than scraped, into
\* a table that holds all three jobs
C18_Witness ==
    /\ store_call.op = "save_job"
    /\ store_call.ret
    /\ store_call.arg = [ job_id |-> "a", status |-> "submitted",
                          relevance_score |-> 80, priority_score |-> 80,
                          discovered_at |-> 1 ]
    /\ Cardinality(job_opportunities) = 3
    /\ ScrapedJob("a") \notin job_opportunities

\* position of a status in the order discovered, queued, generated,
\* submitted, rejected
StatusRank(status) ==
    CASE status = "discovered" -> 1
      [] status = "queued"     -> 2
      [] status = "generated"  -> 3
      [] status = "submitted"  -> 4
      [] status = "rejected"   -> 5

\* C19: no discovery, save, queue or generation call moves the stored status
\* of a job or of an application back to an earlier status
C19_StatusForwardOnly ==
    [][ /\ \A r \in job_opportunities, q \in job_opportunities' :
              r.job_id = q.job_id => StatusRank(q.status) >= StatusRank(r.status)
        /\ \A r \in applications, q \in applications' :
              r.id = q.id => StatusRank(q.status) >= StatusRank(r.status) ]_vars

\* C20: get_jobs_by_status(status, limit) returns only stored rows with that
\* status, at most limit of them, by score descending, rows of equal score by
\* discovery time ascending
C20_QueryByStatus ==
    store_call.op = "get_jobs_by_status" =>
        LET rows  == store_call.ret
            limit == store_call.arg.limit
        IN /\ \A i \in 1..Len(rows) :
                 rows[i] \in job_opportunities /\ rows[i].status = store_call.arg.status
           /\ limit.given => Len(rows) <= limit.n
           /\ \A i, j \in 1..Len(rows) :
                 i < j =>
                    /\ rows[i].relevance_score >= rows[j].relevance_score
                    /\ rows[i].relevance_score = rows[j].relevance_score
                          => rows[i].discovered_at <= rows[j].discovered_at

\* C21: get_top_opportunities(limit) returns stored rows with status
\* 'discovered' and score > 0 only, in descending score order, and when the
\* read succeeds they are the limit highest-scored such rows (all of them when
\* there are fewer)
C21_TopOpportunities ==
    store_call.op = "get_top_opportunities" =>
        LET rows  == store_call.ret
            limit == store_call.arg
            candidates == { r \in job_opportunities :
                               r.status = "discovered" /\ r.relevance_score > 0 }
            returned == { rows[i] : i \in 1..Len(rows) }
        IN /\ returned \subseteq candidates
           /\ Cardinality(returned) = Len(rows)
           /\ Len(rows) <= limit
           /\ \A i, j \in 1..Len(rows) :
                 i < j => rows[i].relevance_score >= rows[j].relevance_score
           /\ ~store_call.fault =>
                 /\ Len(rows) = Min(limit, Cardinality(candidates))
                 /\ \A r \in candidates \ returned, q \in returned :
                       r.relevance_score <= q.relevance_score

\* the better of two scored rows was returned while the table also holds a
\* row with another status
C21_Witness ==
    /\ store_call.op = "get_top_opportunities"
    /\ store_call.arg = 1
    /\ Len(store_call.ret) = 1
    /\ store_call.ret[1].relevance_score = 80
    /\ \E r \in job_opportunities : r.status = "discovered" /\ r.relevance_score = 60
    /\ \E r \in job_opportunities : r.status = "submitted"

\* C22: a failing write or read does not raise: save_job returns False, the
\* two queries return an empty list, and discover_jobs returns all the
\* deduplicated jobs it found although some could not be saved
C22_PersistenceFailure ==
    /\ (store_call.op = "save_job" /\ store_call.fault) => store_call.ret = FALSE
    /\ (store_call.op \in { "get_jobs_by_status", "get_top_opportunities" }
        /\ store_call.fault) => store_call.ret = << >>
    /\ store_call.op = "discover_jobs" => store_call.ret = store_call.arg

\* discover_jobs found three jobs, none could be saved, and it returned the three
C22_Witness ==
    /\ store_call.op = "discover_jobs"
    /\ store_call.fault = JobIds
    /\ store_call.ret = JobIds
    /\ job_opportunities = {}

C29_SingleQueuedRecord ==
    \A job_id \in JobIds :
        Cardinality({ r \in applications : r.job_id = job_id /\ r.status = "queued" }) <= 1

\* C30: the number of applications the generation cycle has generated never
\* exceeds max_daily_applications, however many jobs are queued and wherever
\* the discovery cycle queues jobs in between
C30_DailyLimit ==
    daily_stats.applications_generated <= config.max_daily_applications

\* the limit check stopped a pass: the limit, not zero, was reached while a
\* job was still queued
C30_Witness ==
    /\ hub_pc = "limit_reached"
    /\ config.max_daily_applications > 0
    /\ daily_stats.applications_generated = config.max_daily_applications
    /\ \E r \in applications : r.status = "queued"

C25_ProgressUpdates ==
    [][ /\ (orch_pc' # orch_pc /\ orch_pc' \in { "research", "content", "returned" }) =>
              Len(tracker'.progress_updates) > Len(tracker.progress_updates)
        /\ (\E n \in AllTasks : task[n] = "calling" /\ task'[n] = "done") =>
              Len(tracker'.display) > Len(tracker.display) ]_vars

\* C26: a run that has ended left its tracker inactive and called exactly one
\* of complete() and error(): complete() when it returned, error() when it
\* raised
C26_OneTerminalCall ==
    /\ (orch_pc = "returned" \/ ai_pc = "returned") =>
          ~tracker.is_active /\ complete_calls = 1 /\ error_calls = 0
    /\ (orch_pc = "raised" \/ ai_pc = "raised") =>
          ~tracker.is_active /\ complete_calls = 0 /\ error_calls = 1

\* the external call of a task returned a response
Returned(n) == outcome[n] \in { "ok", "no_content" }

\* C27: the api_calls_made of the application a run returns is the number of
\* external calls of that run that returned, at most nine, also on an engine
\* that has produced a package before
C27_CallsReported ==
    application # NoObject =>
        /\ application.api_calls_made = Cardinality({ n \in AllTasks : Returned(n) })
        /\ application.api_calls_made <= Cardinality(AllTasks)

\* C23: every external call of a generation run, in parallel mode and in the
\* single-threaded AI mode, comes directly after a rate-limiting sleep
C23_DelayBeforeCall ==
    \A i \in 1..Len(call_log) :
        call_log[i] = "call" => (i > 1 /\ call_log[i - 1] = "sleep")

====
